---- MODULE Spec2Model ----
(***************************************************************************)
(* Model of the two code fixtures of sphinx-immaterial:                    *)
(*   - tests/issue_134: the pybind11 binding of struct Example             *)
(*   - docs/cpp_apigen_demo: the Array / DataOrder declarations, with the  *)
(*     fake_stdlib.h stand-ins for std::enable_if_t / std::is_convertible_v *)
(***************************************************************************)
EXTENDS Integers, Sequences, FiniteSets, TLC

(***************************************************************************)
(* Bounds                                                                  *)
(***************************************************************************)
\* number of Example instances created in one behaviour
MaxObjects == 2
\* largest Array Rank that is instantiated
MaxRank == 3

(***************************************************************************)
(* Python argument values.  An int is hi * 2^16 + lo so that values        *)
(* outside the range of a C int can be written down.                       *)
(***************************************************************************)
PyInt == [kind : {"int"}, hi : {-32769, -32768, -1, 0, 32767, 32768}, lo : {0, 1, 65535}]
PyBool == [kind : {"bool"}, b : BOOLEAN]
PyFloat == [kind : {"float"}, f : {"0.0", "1.5"}]
PyStr == [kind : {"str"}, s : {"", "abc"}]
PyNone == [kind : {"none"}]
PyVal == PyInt \cup PyBool \cup PyFloat \cup PyStr \cup PyNone

\* the values of the declared C++ parameter types int and bool
FitsInt(x) == x.kind = "int" /\ x.hi >= -32768 /\ x.hi <= 32767
Declared(x) == x.kind = "bool" \/ FitsInt(x)

\* Python truth value (nb_bool); -1 when the type has no nb_bool slot
Truth(x) ==
  CASE x.kind = "bool" -> (IF x.b THEN 1 ELSE 0)
    [] x.kind = "int" -> (IF x.hi = 0 /\ x.lo = 0 THEN 0 ELSE 1)
    [] x.kind = "float" -> (IF x.f = "0.0" THEN 0 ELSE 1)
    [] x.kind = "none" -> 0
    [] OTHER -> -1

\* type_caster<int>::load
LoadInt(x, convert) ==
  CASE x.kind = "float" -> FALSE
    [] x.kind = "int" -> FitsInt(x)
    [] x.kind = "bool" -> TRUE
    [] OTHER -> FALSE

\* type_caster<bool>::load
LoadBool(x, convert) ==
  IF x.kind = "bool" THEN TRUE
  ELSE convert /\ Truth(x) \in {0, 1}

\* the C++ bool a loaded argument converts to
AsBool(x) == Truth(x) = 1

(***************************************************************************)
(* struct Example                                                          *)
(***************************************************************************)
\* Example() : is_set_by_init(false)
Example0 == [is_set_by_init |-> FALSE]

\* a wrong constructor: the argument is dropped
Example1_dropped(value) == [is_set_by_init |-> FALSE]

\* Example(const bool value) : is_set_by_init(value)
Example1(value) == [is_set_by_init |-> value]

(***************************************************************************)
(* The bound callables                                                     *)
(***************************************************************************)
\* [](Example& self, int x) { return 1; }
foo_int(self, x) == 1

\* a wrong bool overload: returns its argument's zero
foo_bool_zero(self, x) == 0

\* [](Example& self, bool x) { return 1; }
foo_bool(self, x) == 1

\* a wrong getter: the result depends on the instance
no_signature_dependent(self) == IF self.is_set_by_init THEN 42 ELSE 0

\* [](const Example& self) -> int { return 42; }
no_signature(self) == 42

\* parameter types of each registered overload (self excluded)
Params(ov) ==
  CASE ov = "init0" -> <<>>
    [] ov = "init1" -> <<"bool">>
    [] ov = "foo_int" -> <<"int">>
    [] ov = "foo_bool" -> <<"bool">>

Overloads == {"init0", "init1", "foo_int", "foo_bool"}

\* does overload ov accept the argument tuple in a pass with this convert flag
Accepts(ov, args, convert) ==
  /\ Len(args) = Len(Params(ov))
  /\ \A i \in 1..Len(args) :
       IF Params(ov)[i] = "int" THEN LoadInt(args[i], convert)
       ELSE LoadBool(args[i], convert)

\* first overload of the chain, in registration order, that accepts; 0 if none
FirstAccepting(chain, args, convert) ==
  IF \E i \in 1..Len(chain) : Accepts(chain[i], args, convert)
  THEN CHOOSE i \in 1..Len(chain) :
         /\ Accepts(chain[i], args, convert)
         /\ \A j \in 1..(i - 1) : ~Accepts(chain[j], args, convert)
  ELSE 0

\* cpp_function::dispatcher: a chain of two or more overloads is tried first
\* without implicit conversions, then with them; a single function is tried
\* once, with conversions.  Result: the selected overload or "TypeError".
Dispatch(chain, args) ==
  LET overloaded == Len(chain) > 1
      p1 == FirstAccepting(chain, args, ~overloaded)
      p2 == FirstAccepting(chain, args, TRUE)
  IN IF p1 # 0 THEN chain[p1]
     ELSE IF overloaded /\ p2 # 0 THEN chain[p2]
     ELSE "TypeError"

\* the value the selected foo overload returns
FooBody(ov, self, x) ==
  IF ov = "foo_int" THEN foo_int(self, x) ELSE foo_bool(self, x)

(***************************************************************************)
(* The class object built by PYBIND11_MODULE: a heap of function objects   *)
(* (each an overload chain) and the attribute table of the class.          *)
(***************************************************************************)
NoAttr == [kind |-> "absent"]
Method(f) == [kind |-> "method", func |-> f]
Property(getter, setter) == [kind |-> "property", fget |-> getter, fset |-> setter]

AttrNames == {"__init__", "no_signature", "foo", "bar", "is_set_by_init"}

\* py::class_<Example> cls(m, "Example")
class_ == [funcs |-> <<>>, attrs |-> [n \in AttrNames |-> NoAttr]]

\* a wrong def: the sibling is ignored and the name is rebound
def_overwrite(c, name, ov) ==
  [funcs |-> Append(c.funcs, <<ov>>),
   attrs |-> [c.attrs EXCEPT ![name] = Method(Len(c.funcs) + 1)]]

\* cls.def(name, f): with a sibling of that name the overload joins the
\* sibling's chain, in place; otherwise a new function object is made.
def(c, name, ov) ==
  IF c.attrs[name].kind = "method"
  THEN [c EXCEPT !.funcs[c.attrs[name].func] = Append(@, ov)]
  ELSE [funcs |-> Append(c.funcs, <<ov>>),
        attrs |-> [c.attrs EXCEPT ![name] = Method(Len(c.funcs) + 1)]]

\* cls.def_property_readonly(name, getter): a property without a setter
def_property_readonly(c, name, getter) ==
  [c EXCEPT !.attrs[name] = Property(getter, "none")]

\* a wrong binding: def_readwrite, which also installs a setter
def_readwrite(c, name, member) ==
  [c EXCEPT !.attrs[name] = Property(member, member)]

\* cls.def_readonly(name, &Example::member): getter only
def_readonly(c, name, member) ==
  [c EXCEPT !.attrs[name] = Property(member, "none")]

\* a wrong alias: a separate function object holding the first overload only
attr_assign_first(c, target, source) ==
  [funcs |-> Append(c.funcs, <<Head(c.funcs[c.attrs[source].func])>>),
   attrs |-> [c.attrs EXCEPT ![target] = Method(Len(c.funcs) + 1)]]

\* cls.attr(target) = cls.attr(source): both names refer to one object
attr_assign(c, target, source) ==
  [c EXCEPT !.attrs[target] = c.attrs[source]]

\* the overload chain a method attribute refers to
Chain(c, name) == c.funcs[c.attrs[name].func]

\* outcome of calling method name of the class on instance self with x
CallResult(c, name, self, x) ==
  LET ov == Dispatch(Chain(c, name), <<x>>)
  IN IF ov = "TypeError"
     THEN [status |-> "TypeError", overload |-> "none", value |-> 0]
     ELSE [status |-> "ok", overload |-> ov, value |-> FooBody(ov, self, x)]

\* outcome of reading a property of instance self
ReadResult(c, name, self) ==
  IF c.attrs[name].fget = "no_signature"
  THEN [status |-> "ok", value |-> no_signature(self), flag |-> FALSE]
  ELSE [status |-> "ok", value |-> 0, flag |-> self.is_set_by_init]

(***************************************************************************)
(* docs/cpp_apigen_demo: fake_stdlib.h and array.h                         *)
(***************************************************************************)
\* enum class DataOrder { C = 0, F = 1 }
C == 0
F == 1
DataOrder == {C, F}

\* element types: a base type, possibly const
ElemTypes == [base : {"int", "float", "char"}, const : BOOLEAN]
Ranks == 1..MaxRank

\* the type X(*)[]
PtrToArray(X) == [pointee |-> "array", elem |-> X]

\* what an alias or a deduction yields when substitution fails
SubstFailure == "substitution failure"

\* template <bool Condition, typename T = void> using enable_if_t = T;
enable_if_t(Condition, T) == T

\* template <typename T, typename U> constexpr bool is_convertible_v = true;
is_convertible_v(T, U) == TRUE

\* T operator[](int index), constrained by enable_if_t<SfinaeRank == 1>,
\* SfinaeRank defaulting to Rank: is the overload viable for Array<T, Rank>
IndexIntAvailable(T, Rank) ==
  LET SfinaeRank == Rank
  IN enable_if_t(SfinaeRank = 1, "void") # SubstFailure

\* T operator[](std::array<int, Rank> index): not a template
IndexVectorAvailable(T, Rank) == TRUE

\* Array(const Array<U, Rank>& other), constrained by
\* enable_if_t<is_convertible_v<U (*)[], T (*)[]>>: is it viable for an
\* argument of type Array<U, OtherRank>
ConvertAvailable(T, Rank, U, OtherRank) ==
  /\ OtherRank = Rank
  /\ enable_if_t(is_convertible_v(PtrToArray(U), PtrToArray(T)), "void") # SubstFailure

\* a wrong default argument
ArrayOrderArg_F(rest) == IF Len(rest) = 0 THEN F ELSE rest[1]

\* Array(T* data, std::array<int, Rank> shape, DataOrder order = DataOrder::C):
\* the value the parameter order is bound to, rest being the arguments that
\* follow data and shape
ArrayOrderArg(rest) == IF Len(rest) = 0 THEN C ELSE rest[1]

(***************************************************************************)
(* State                                                                   *)
(***************************************************************************)
VARIABLES
  pc,      \* position inside PYBIND11_MODULE
  cls,     \* the class object Example
  objs,    \* the Example instances created so far
  last,    \* the last operation from Python and its outcome
  inst     \* the last use of the cpp_apigen_demo declarations

vars == <<pc, cls, objs, last, inst>>

NoCall == [op |-> "none"]
NoInst == [use |-> "none"]

Init ==
  /\ pc = "class_"
  /\ cls = class_
  /\ objs = <<>>
  /\ last = NoCall
  /\ inst = NoInst

(***************************************************************************)
(* PYBIND11_MODULE, one statement per step                                 *)
(***************************************************************************)
Step(from, to, c) ==
  /\ pc = from
  /\ pc' = to
  /\ cls' = c
  /\ UNCHANGED <<objs, last, inst>>

DefInit0 == Step("class_", "init0", def(cls, "__init__", "init0"))

DefInit1 == Step("init0", "init1", def(cls, "__init__", "init1"))

DefNoSignature ==
  Step("init1", "no_signature", def_property_readonly(cls, "no_signature", "no_signature"))

DefFooInt == Step("no_signature", "foo_int", def(cls, "foo", "foo_int"))

DefFooBool == Step("foo_int", "foo_bool", def(cls, "foo", "foo_bool"))

AliasBar == Step("foo_bool", "bar", attr_assign(cls, "bar", "foo"))

DefIsSetByInit ==
  Step("bar", "done", def_readonly(cls, "is_set_by_init", "is_set_by_init"))

(***************************************************************************)
(* Operations from Python on the imported module                           *)
(***************************************************************************)
ArgTuples == {<<>>} \cup {<<v>> : v \in PyVal}

\* Example(*args)
Construct ==
  /\ pc = "done"
  /\ Len(objs) < MaxObjects
  /\ \E args \in ArgTuples :
       LET ov == Dispatch(Chain(cls, "__init__"), args)
       IN IF ov = "TypeError"
          THEN /\ objs' = objs
               /\ last' = [op |-> "construct", args |-> args, obj |-> 0,
                           status |-> "TypeError"]
          ELSE /\ objs' = Append(objs, IF ov = "init0" THEN Example0
                                       ELSE Example1(AsBool(args[1])))
               /\ last' = [op |-> "construct", args |-> args,
                           obj |-> Len(objs) + 1, status |-> "ok"]
  /\ UNCHANGED <<pc, cls, inst>>

\* obj.foo(x), obj.bar(x)
CallMethod ==
  /\ pc = "done"
  /\ \E name \in {"foo", "bar"}, o \in 1..Len(objs), x \in PyVal :
       LET r == CallResult(cls, name, objs[o], x)
       IN last' = [op |-> name, obj |-> o, arg |-> x, status |-> r.status,
                   overload |-> r.overload, value |-> r.value]
  /\ UNCHANGED <<pc, cls, objs, inst>>

\* obj.no_signature, obj.is_set_by_init
GetAttr ==
  /\ pc = "done"
  /\ \E name \in {"no_signature", "is_set_by_init"}, o \in 1..Len(objs) :
       LET r == ReadResult(cls, name, objs[o])
       IN last' = [op |-> "get", name |-> name, obj |-> o, status |-> r.status,
                   value |-> r.value, flag |-> r.flag]
  /\ UNCHANGED <<pc, cls, objs, inst>>

\* obj.name = v: only a property with a setter accepts the assignment
SetAttr ==
  /\ pc = "done"
  /\ \E name \in {"no_signature", "is_set_by_init"}, o \in 1..Len(objs), v \in PyBool :
       IF cls.attrs[name].fset = "is_set_by_init"
       THEN /\ objs' = [objs EXCEPT ![o].is_set_by_init = v.b]
            /\ last' = [op |-> "set", name |-> name, obj |-> o, status |-> "ok"]
       ELSE /\ objs' = objs
            /\ last' = [op |-> "set", name |-> name, obj |-> o,
                        status |-> "AttributeError"]
  /\ UNCHANGED <<pc, cls, inst>>

(***************************************************************************)
(* Uses of the cpp_apigen_demo declarations                                *)
(***************************************************************************)
\* a[index] on an Array<T, Rank>
IndexArray ==
  /\ \E T \in ElemTypes, Rank \in Ranks :
       inst' = [use |-> "index", T |-> T, Rank |-> Rank,
                int_index |-> IndexIntAvailable(T, Rank),
                index_vector |-> IndexVectorAvailable(T, Rank)]
  /\ UNCHANGED <<pc, cls, objs, last>>

\* Array<T, Rank>(other) with other an Array<U, OtherRank>
ConvertArray ==
  /\ \E T \in ElemTypes, U \in ElemTypes, Rank \in Ranks, OtherRank \in Ranks :
       inst' = [use |-> "convert", T |-> T, Rank |-> Rank, U |-> U,
                OtherRank |-> OtherRank,
                available |-> ConvertAvailable(T, Rank, U, OtherRank)]
  /\ UNCHANGED <<pc, cls, objs, last>>

\* Array<T, Rank>(data, shape) and Array<T, Rank>(data, shape, order)
ConstructArray ==
  /\ \E T \in ElemTypes, Rank \in Ranks, given \in {<<>>} \cup {<<o>> : o \in DataOrder} :
       inst' = [use |-> "construct", T |-> T, Rank |-> Rank, given |-> given,
                order |-> ArrayOrderArg(given)]
  /\ UNCHANGED <<pc, cls, objs, last>>

ArrayNext ==
  \/ IndexArray
  \/ ConvertArray
  \/ ConstructArray

ArraySpec == Init /\ [][ArrayNext]_vars

Next ==
  \/ DefInit0
  \/ DefInit1
  \/ DefNoSignature
  \/ DefFooInt
  \/ DefFooBool
  \/ AliasBar
  \/ DefIsSetByInit
  \/ Construct
  \/ CallMethod
  \/ GetAttr
  \/ SetAttr

Spec == Init /\ [][Next]_vars

(***************************************************************************)
(* Properties                                                              *)
(***************************************************************************)
DeclaredArgs(args) == \A i \in 1..Len(args) : args[i].kind = "bool"

\* no step changes an instance that exists
InstancesKept ==
  /\ Len(objs') >= Len(objs)
  /\ \A o \in 1..Len(objs) : objs'[o] = objs[o]

\* C1: is_set_by_init is set by the constructor: Example(v) with a bool v
\* succeeds and yields an instance whose is_set_by_init is v, Example() one
\* whose is_set_by_init is false, as stored and as read through the binding.
C1_SetByInit ==
  (last.op = "construct" /\ DeclaredArgs(last.args)) =>
     /\ last.status = "ok"
     /\ last.obj \in 1..Len(objs)
     /\ LET v == IF Len(last.args) = 0 THEN FALSE ELSE last.args[1].b
        IN /\ objs[last.obj].is_set_by_init = v
           /\ ReadResult(cls, "is_set_by_init", objs[last.obj]).flag = v

C1_Witness ==
  /\ last.op = "construct"
  /\ last.args = <<[kind |-> "bool", b |-> TRUE]>>
  /\ last.status = "ok"

\* C2: is_set_by_init is read-only: the binding installs no setter for it,
\* and no step of any operation (foo, bar, reading an attribute, an attempted
\* assignment, constructing another instance) changes the is_set_by_init of
\* an instance that exists.
C2_ReadOnly ==
  /\ [](pc = "done" => cls.attrs["is_set_by_init"].fset = "none")
  /\ [][InstancesKept]_vars

C2_Witness ==
  /\ last.op = "set"
  /\ last.name = "is_set_by_init"
  /\ last.status = "AttributeError"
  /\ objs[last.obj].is_set_by_init

\* C3: operator[](int) is available exactly when Rank = 1, and the
\* index-vector overload is available for every Rank.
C3_IntIndexOnlyRank1 ==
  inst.use = "index" =>
     /\ inst.int_index = (inst.Rank = 1)
     /\ inst.index_vector

\* U (*)[] converts to T (*)[] when the element types agree up to an added const
PtrArrayConvertible(U, T) == U.base = T.base /\ (U.const => T.const)

\* C4: the converting constructor is available exactly when the ranks are
\* equal and U (*)[] is convertible to T (*)[].
C4_ConvertOnlyCompatible ==
  inst.use = "convert" =>
     inst.available = (inst.OtherRank = inst.Rank /\ PtrArrayConvertible(inst.U, inst.T))

\* C5: DataOrder has exactly the two distinct values C = 0 and F = 1, and an
\* Array constructed without an order argument gets DataOrder::C; one
\* constructed with an order argument gets that order.
C5_DataOrder ==
  inst.use = "construct" =>
     /\ DataOrder = {0, 1} /\ C = 0 /\ F = 1 /\ C # F
     /\ inst.order \in DataOrder
     /\ (Len(inst.given) = 0 => inst.order = C)
     /\ (Len(inst.given) = 1 => inst.order = inst.given[1])

C5_Witness ==
  /\ inst.use = "construct"
  /\ inst.given = <<>>
  /\ inst.Rank = MaxRank

\* C6: once the module is built, bar and foo are one function object holding
\* both foo overloads, and for every instance and every argument bar(x) gives
\* the outcome of foo(x): same overload, same value, same failure; every call
\* of bar made has the outcome foo has for that call.
C6_BarIsFoo ==
  pc = "done" =>
     /\ cls.attrs["bar"] = cls.attrs["foo"]
     /\ Chain(cls, "bar") = <<"foo_int", "foo_bool">>
     /\ \A o \in 1..Len(objs), x \in PyVal :
          CallResult(cls, "bar", objs[o], x) = CallResult(cls, "foo", objs[o], x)
     /\ last.op = "bar" =>
          LET r == CallResult(cls, "foo", objs[last.obj], last.arg)
          IN /\ last.status = r.status
             /\ last.overload = r.overload
             /\ last.value = r.value

C6_Witness ==
  /\ last.op = "bar"
  /\ last.status = "ok"
  /\ last.overload = "foo_bool"

\* C7: foo holds the int overload then the bool overload; a call of foo with
\* an int or a bool succeeds and returns 1 whichever overload is selected,
\* and no call of foo changes an instance.
C7_FooReturnsOne ==
  /\ [](pc = "done" =>
          /\ Chain(cls, "foo") = <<"foo_int", "foo_bool">>
          /\ (last.op = "foo" /\ last.arg.kind \in {"int", "bool"}) =>
                /\ last.status = "ok"
                /\ last.overload \in {"foo_int", "foo_bool"}
                /\ last.value = 1)
  /\ [][last'.op = "foo" => objs' = objs]_vars

C7_Witness ==
  /\ last.op = "foo"
  /\ last.arg.kind = "int"
  /\ last.overload = "foo_bool"
  /\ last.value = 1

\* C8: reading no_signature gives 42 for every instance, whatever its
\* is_set_by_init, and the read changes no instance.
C8_NoSignature ==
  /\ [](pc = "done" =>
          /\ \A o \in 1..Len(objs) :
               LET r == ReadResult(cls, "no_signature", objs[o])
               IN r.status = "ok" /\ r.value = 42
          /\ (last.op = "get" /\ last.name = "no_signature") =>
                last.status = "ok" /\ last.value = 42)
  /\ [][last'.op = "get" => objs' = objs]_vars

C8_Witness ==
  /\ last.op = "get"
  /\ last.name = "no_signature"
  /\ ~objs[last.obj].is_set_by_init
  /\ \E o \in 1..Len(objs) : objs[o].is_set_by_init

\* C9: an operation of the binding called with arguments of its declared
\* types (no argument or a bool for the constructor, a C int or a bool for
\* foo and bar, none for the two attribute reads) completes with a value.
C9_NoErrorOutcome ==
  /\ (last.op = "construct" /\ DeclaredArgs(last.args)) => last.status = "ok"
  /\ (last.op \in {"foo", "bar"} /\ Declared(last.arg)) => last.status = "ok"
  /\ last.op = "get" => last.status = "ok"

C9_Witness ==
  /\ last.op = "construct"
  /\ last.args = <<>>
  /\ last.status = "ok"
  /\ Len(objs) = MaxObjects
====
